---- MODULE Spec2Model ----
(***************************************************************************)
(* CI/CD leaderboard scorer (src/score.mjs): the GitHub API helpers, the   *)
(* CHECKS catalogue of probes, scoreTeam and main.                         *)
(*                                                                         *)
(* Text (file contents, paths, job names) is a sequence of one-character   *)
(* strings, so that toLowerCase, includes, startsWith, endsWith and the    *)
(* regular expressions of the source are computed character by character.  *)
(***************************************************************************)
EXTENDS Integers, Sequences, FiniteSets, TLC

VARIABLES
  teams,     \* teams.json as parsed by main
  hosted,    \* the code host: what each endpoint of the audited repositories answers
  net,       \* "up" | "down" | "back" | "silent": the network while the last probe ran
  pc,        \* position of main: "loop" | "checks" (inside scoreTeam) | "pending" | "done"
  ti,        \* main: index of the team being scored
  ki,        \* scoreTeam: index into Object.entries(CHECKS)
  results,   \* scoreTeam: results
  total,     \* scoreTeam: total
  maxTotal,  \* scoreTeam: maxTotal
  scores,    \* main: scores
  fetched,   \* the requests the deployed probes issued, each with what came back
  output     \* main: what main wrote to docs/scores.json: <<>> or <<document>>

vars == <<teams, hosted, net, pc, ti, ki, results, total, maxTotal, scores, fetched, output>>

-----------------------------------------------------------------------------
\* String primitives of JavaScript used by the probes

UPPER == <<"A","B","C","D","E","F","G","H","I","J","K","L","M","N","O","P","Q","R","S","T","U","V","W","X","Y","Z">>
LOWER == <<"a","b","c","d","e","f","g","h","i","j","k","l","m","n","o","p","q","r","s","t","u","v","w","x","y","z">>
DIGITS == <<"0","1","2","3","4","5","6","7","8","9">>

Range(s) == { s[i] : i \in 1..Len(s) }

Min(S) == CHOOSE x \in S : \A y \in S : x <= y

\* the lower-case letter of each upper-case letter
LowerOf == [c \in Range(UPPER) |-> LOWER[CHOOSE i \in 1..Len(UPPER) : UPPER[i] = c]]

ToLowerChar(c) == IF c \in DOMAIN LowerOf THEN LowerOf[c] ELSE c

toLowerCase(s) == [i \in 1..Len(s) |-> ToLowerChar(s[i])]

\* s.includes(k): k occurs in s as a contiguous substring
includes(s, k) == \E i \in 0..(Len(s) - Len(k)) : \A j \in 1..Len(k) : s[i + j] = k[j]

startsWith(s, k) == Len(k) <= Len(s) /\ \A j \in 1..Len(k) : s[j] = k[j]

endsWith(s, k) == Len(k) <= Len(s) /\ \A j \in 1..Len(k) : s[Len(s) - Len(k) + j] = k[j]

\* !content is true of null and of the empty string
truthy(s) == s # <<>>

-----------------------------------------------------------------------------
\* What the remote side answers to one HTTP request

HttpOk(body) == [st |-> "ok", body |-> body]
HttpError == [st |-> "http_error"]        \* a response with res.ok false (404, 403, 429, ...)
NetworkError == [st |-> "network_error"]  \* fetch rejects
NoAnswer == [st |-> "no_answer"]          \* the request is sent and nothing comes back

-----------------------------------------------------------------------------
\* The repositories the explored runs audit

MaxTeams == 2
MaxJobs == 2
MaxFlips == 1

File(path) == [path |-> path]

Run(id, conclusion, created_at, updated_at) ==
  [ id |-> id, conclusion |-> conclusion, status |-> "completed", run_number |-> id,
    created_at |-> created_at, updated_at |-> updated_at ]

Job(name, conclusion) == [name |-> name, conclusion |-> conclusion]

NoFiles == [p \in {} |-> HttpError]
NoRunData == [i \in {} |-> HttpError]

\* a repository that does not exist, or that the token may not read: every
\* endpoint answers 404
GoneRepo ==
  [ tree |-> HttpError, files |-> NoFiles, runs |-> HttpError, jobs |-> NoRunData,
    artifacts |-> NoRunData, packages |-> HttpError, protection |-> HttpError ]

CI_YML == <<".","g","i","t","h","u","b","/","w","o","r","k","f","l","o","w","s","/","c","i",".","y","m","l">>

AceWorkflow ==
  <<"o","n",":"," ","p","u","s","h",":"," ","m","a","i","n","\n","r","u","f","f"," ","c","h","e","c","k","\n","p","y","t","e","s","t"," ","-","-","c","o","v","\n","d","o","c","k","e","r"," ","b","u","i","l","d","\n","t","r","i","v","y","\n","s","o","n","a","r","\n","d","e","p","l","o","y"," ","s","t","a","g","i","n","g"," ","p","r","o","d">>

AceRepo ==
  [ tree |-> HttpOk([tree |-> << File(CI_YML), File(<<"m","a","i","n",".","p","y">>), File(<<"t","e","s","t","s","/","t","e","s","t","_","a","p","i",".","p","y">>),
                                File(<<"D","o","c","k","e","r","f","i","l","e">>) >>]),
    files |-> (CI_YML :> HttpOk(AceWorkflow)) @@ (<<"m","a","i","n",".","p","y">> :> HttpOk(<<"a","p","p"," ","="," ","F","a","s","t","A","P","I","(",")">>))
              @@ (<<"D","o","c","k","e","r","f","i","l","e">> :> HttpOk(<<"F","R","O","M"," ","p","y","t","h","o","n">>))
              @@ (<<".","g","i","t","h","u","b","/","d","e","p","e","n","d","a","b","o","t",".","y","m","l">> :> HttpOk(<<"v","e","r","s","i","o","n",":"," ","2">>)),
    runs |-> HttpOk(<< Run(7, "success", 100, 220), Run(6, "failure", 10, 400) >>),
    jobs |-> (7 :> HttpOk([jobs |-> << Job(<<"t","e","s","t">>, "success") >>])),
    artifacts |-> (7 :> HttpOk([artifacts |-> <<>>])),
    packages |-> HttpOk(<< "api" >>),
    protection |-> HttpOk([message |-> "", required_pull_request_reviews |-> TRUE]) ]

\* Families of repositories are named after what they hold.
NameOf(param) == ToString(param)
ParamOf(params, name) == CHOOSE p \in params : NameOf(p) = name

\* Repositories "tree/<<S, green>>": a readable tree holding the files of
\* TreePool whose index is in S, and a latest run that succeeded iff green.
FullWorkflow ==
  <<"o","n",":"," ","p","u","s","h",":"," ","m","a","i","n","\n","e","s","l","i","n","t","\n","p","y","t","e","s","t"," ","-","-","c","o","v","e","r","a","g","e","\n","d","o","c","k","e","r"," ","b","u","i","l","d","\n","t","r","i","v","y","\n","q","u","a","l","i","t","y","\n","d","e","p","l","o","y"," ","s","t","a","g","i","n","g"," ","p","r","o","d">>

TreePool ==
  << [path |-> <<"s","o","n","a","r","-","p","r","o","j","e","c","t",".","p","r","o","p","e","r","t","i","e","s">>, content |-> <<"s","o","n","a","r",".","p","r","o","j","e","c","t","K","e","y","=","a","p","i">>],
     [path |-> <<"t","e","s","t","s","/","t","e","s","t","_","a","p","p",".","p","y">>, content |-> <<"d","e","f"," ","t","e","s","t","_","o","k","(",")",":"," ","p","a","s","s">>],
     [path |-> CI_YML, content |-> FullWorkflow],
     [path |-> <<"d","o","c","s","/",".","g","i","t","h","u","b","/","w","o","r","k","f","l","o","w","s","/","c","i",".","y","m","l">>, content |-> FullWorkflow],
     [path |-> <<".","g","i","t","h","u","b","/","w","o","r","k","f","l","o","w","s","/","n","o","t","e","s",".","m","d">>, content |-> FullWorkflow],
     [path |-> <<"w","e","b","/","a","p","p",".","s","p","e","c",".","j","s">>, content |-> <<"i","t","(","'","w","o","r","k","s","'",")">>] >>

TreeParams == (SUBSET (1..Len(TreePool))) \X BOOLEAN

TreeRepo(p) ==
  LET held == SelectSeq(TreePool, LAMBDA f : \E i \in p[1] : TreePool[i] = f)
  IN [ tree |-> HttpOk([tree |-> [i \in 1..Len(held) |-> File(held[i].path)]]),
       files |-> [ path \in { held[i].path : i \in 1..Len(held) } |->
                     HttpOk((CHOOSE f \in Range(held) : f.path = path).content) ],
       runs |-> HttpOk(IF p[2] THEN << Run(1, "success", 0, 60) >> ELSE <<>>),
       jobs |-> (1 :> HttpOk([jobs |-> << Job(<<"t","e","s","t">>, "success") >>])),
       artifacts |-> (1 :> HttpOk([artifacts |-> <<>>])),
       packages |-> HttpOk(<<>>),
       protection |-> HttpError ]

\* Repositories "jobs/<<conclusion, js>>": the latest run on main has this
\* conclusion and the jobs JobKinds[js[1]], JobKinds[js[2]], ... in this order.
JobKinds ==
  << Job(<<"b","u","i","l","d">>, "success"), Job(<<"b","u","i","l","d">>, "skipped"), Job(<<"b","u","i","l","d">>, "failure"),
     Job(<<"U","n","i","t"," ","T","e","s","t","s">>, "success"), Job(<<"U","n","i","t"," ","T","e","s","t","s">>, "skipped"),
     Job(<<"d","e","p","l","o","y">>, "success"), Job(<<"d","e","p","l","o","y">>, "skipped") >>

JobsParams ==
  { "success", "failure" } \X UNION { [1..n -> 1..Len(JobKinds)] : n \in 0..MaxJobs }

JobsRepo(p) ==
  [ tree |-> HttpError, files |-> NoFiles,
    runs |-> HttpOk(<< Run(1, p[1], 0, 60) >>),
    jobs |-> (1 :> HttpOk([jobs |-> [i \in 1..Len(p[2]) |-> JobKinds[p[2][i]]]])),
    artifacts |-> NoRunData, packages |-> HttpError, protection |-> HttpError ]

\* Repositories "case/<<i, F>>": one workflow file holding CasePhrases[i]
\* with the letters at the positions F in upper case, and a green latest run.
CasePhrases ==
  << <<"d","o","c","k","e","r"," ","b","u","i","l","d">>, <<"p","y","t","e","s","t"," ","-","-","c","o","v","e","r","a","g","e">>, <<"e","s","l","i","n","t">>, <<"t","r","i","v","y"," ","s","c","a","n">>, <<"s","o","n","a","r">>,
     <<"d","e","p","l","o","y"," ","p","u","s","h"," ","m","a","i","n">>, <<"s","t","a","g","i","n","g"," ","p","r","o","d">> >>

UpperOf == [c \in Range(LOWER) |-> UPPER[CHOOSE i \in 1..Len(LOWER) : LOWER[i] = c]]

Recase(s, F) == [i \in 1..Len(s) |-> IF i \in F /\ s[i] \in DOMAIN UpperOf THEN UpperOf[s[i]] ELSE s[i]]

LetterPositions(s) == { i \in 1..Len(s) : s[i] \in DOMAIN UpperOf }

CaseParams ==
  UNION { { <<i, F>> : F \in { G \in SUBSET LetterPositions(CasePhrases[i]) :
                                  Cardinality(G) <= MaxFlips } } :
          i \in 1..Len(CasePhrases) }

CaseRepo(p) ==
  [ tree |-> HttpOk([tree |-> << File(CI_YML) >>]),
    files |-> (CI_YML :> HttpOk(Recase(CasePhrases[p[1]], p[2]))),
    runs |-> HttpOk(<< Run(1, "success", 0, 60) >>),
    jobs |-> (1 :> HttpOk([jobs |-> << Job(<<"t","e","s","t">>, "success") >>])),
    artifacts |-> (1 :> HttpOk([artifacts |-> <<>>])),
    packages |-> HttpOk(<<>>),
    protection |-> HttpError ]

\* the code host: <<owner, repo>> -> what each endpoint of the repository answers
Hosted ==
  (<<"ghost", "gone">> :> GoneRepo) @@ (<<"ace", "api">> :> AceRepo)
  @@ [ id \in { <<"tree", NameOf(p)>> : p \in TreeParams } |-> TreeRepo(ParamOf(TreeParams, id[2])) ]
  @@ [ id \in { <<"jobs", NameOf(p)>> : p \in JobsParams } |-> JobsRepo(ParamOf(JobsParams, id[2])) ]
  @@ [ id \in { <<"case", NameOf(p)>> : p \in CaseParams } |-> CaseRepo(ParamOf(CaseParams, id[2])) ]

\* the records teams.json may hold: team.repo.split("/") and deploy_url
Entry(owner, repo, deploy_url) == [repo |-> <<owner, repo>>, deploy_url |-> deploy_url]

Entries ==
  { Entry("ghost", "gone", ""),
    Entry("ace", "api", "https://ok.example") }

\* the records over the deployments of Web, and one without deploy_url
DeployEntries ==
  { Entry(id[1], id[2], url) :
      id \in { <<"ghost", "gone">>, <<"ace", "api">> },
      url \in { "", "https://ok.example", "https://empty.example", "https://err.example",
                "https://lost.example", "https://silent.example", "https://refused.example" } }

TreeEntries == { Entry("tree", NameOf(p), "") : p \in TreeParams }
JobsEntries == { Entry("jobs", NameOf(p), "") : p \in JobsParams }
CaseEntries == { Entry("case", NameOf(p), "") : p \in CaseParams }

AllEntries == Entries \cup DeployEntries \cup TreeEntries \cup JobsEntries \cup CaseEntries

\* The request as it reaches the host: during an outage every fetch rejects,
\* and a host that has gone silent answers none.
fetch(env, resp) == IF env.down THEN NetworkError ELSE IF env.stall THEN NoAnswer ELSE resp

Throw == [k |-> "throw"]
Null == [k |-> "null"]
Value(v) == [k |-> "value", v |-> v]

\* gh and ghRaw: null when !res.ok, otherwise the parsed body; a rejected
\* fetch is not caught here and propagates to the caller. The fetch carries no
\* signal: left without answer, the await is over only if the runtime gives
\* up and rejects, which CheckThrows and CheckPends tell apart.
gh(env, resp) ==
  LET res == fetch(env, resp)
  IN IF res.st = "network_error" \/ res.st = "no_answer" THEN Throw
     ELSE IF res.st # "ok" THEN Null
     ELSE Value(res.body)

\* the repository a URL names
Repo(env, owner, repo) == env.host[<<owner, repo>>]

\* GET /repos/{owner}/{repo}/git/trees/main?recursive=1
ghTree(env, owner, repo) == gh(env, Repo(env, owner, repo).tree)

\* GET raw.githubusercontent.com/{owner}/{repo}/main/{path}: a path the
\* repository does not hold answers 404.
ghRaw(env, owner, repo, path) ==
  LET files == Repo(env, owner, repo).files
  IN gh(env, IF path \in DOMAIN files THEN files[path] ELSE HttpError)

FirstN(s, n) == SubSeq(s, 1, IF Len(s) < n THEN Len(s) ELSE n)

\* GET /actions/runs?branch=main&per_page=1: the newest run on main
ghLatestRuns(env, owner, repo) ==
  LET r == Repo(env, owner, repo).runs
  IN gh(env, IF r.st = "ok" THEN HttpOk([workflow_runs |-> FirstN(r.body, 1)]) ELSE r)

\* GET /actions/runs?branch=main&status=success&per_page=3
ghSuccessRuns(env, owner, repo) ==
  LET r == Repo(env, owner, repo).runs
  IN gh(env, IF r.st = "ok"
             THEN HttpOk([workflow_runs |->
                    FirstN(SelectSeq(r.body, LAMBDA x : x.conclusion = "success"), 3)])
             ELSE r)

\* GET /actions/runs/{id}/jobs
ghJobs(env, owner, repo, id) ==
  LET j == Repo(env, owner, repo).jobs
  IN gh(env, IF id \in DOMAIN j THEN j[id] ELSE HttpError)

\* GET /actions/runs/{id}/artifacts
ghArtifacts(env, owner, repo, id) ==
  LET a == Repo(env, owner, repo).artifacts
  IN gh(env, IF id \in DOMAIN a THEN a[id] ELSE HttpError)

\* GET /repos/{owner}/{repo}/packages?package_type=container
ghPackages(env, owner, repo) == gh(env, Repo(env, owner, repo).packages)

\* GET /repos/{owner}/{repo}/branches/main/protection
ghProtection(env, owner, repo) == gh(env, Repo(env, owner, repo).protection)

-----------------------------------------------------------------------------
\* Individual checks: each returns { pass, detail } or throws

Ret(pass, detail) == [k |-> "return", pass |-> pass, detail |-> detail]
Thrown == [k |-> "throw", message |-> "fetch failed"]

\* the workflow filter without its directory test
wfFilter_anywhere(tree) == SelectSeq(tree, LAMBDA f : endsWith(f.path, <<".","y","m","l">>))

\* tree.tree.filter(f => f.path.startsWith(".github/workflows/") && f.path.endsWith(".yml"))
wfFilter(tree) ==
  SelectSeq(tree, LAMBDA f : startsWith(f.path, <<".","g","i","t","h","u","b","/","w","o","r","k","f","l","o","w","s","/">>) /\ endsWith(f.path, <<".","y","m","l">>))

\* lint_pass: lower.includes("lint") || ... || lower.includes("prettier")
lintMatch(content) ==
  LET lower == toLowerCase(content)
  IN \/ includes(lower, <<"l","i","n","t">>)
     \/ includes(lower, <<"r","u","f","f">>)
     \/ includes(lower, <<"f","l","a","k","e","8">>)
     \/ includes(lower, <<"p","y","l","i","n","t">>)
     \/ includes(lower, <<"e","s","l","i","n","t">>)
     \/ includes(lower, <<"p","r","e","t","t","i","e","r">>)

\* tests_exist: lower.includes("pytest") || ... || lower.includes("npm run test")
testRunnerMatch(content) ==
  LET lower == toLowerCase(content)
  IN \/ includes(lower, <<"p","y","t","e","s","t">>)
     \/ includes(lower, <<"j","e","s","t">>)
     \/ includes(lower, <<"v","i","t","e","s","t">>)
     \/ includes(lower, <<"n","p","m"," ","t","e","s","t">>)
     \/ includes(lower, <<"n","p","m"," ","r","u","n"," ","t","e","s","t">>)

\* coverage_70: content.includes(...) on the content as it is, no toLowerCase
coverageMatch(content) ==
  \/ includes(content, <<"-","-","c","o","v">>)
  \/ includes(content, <<"c","o","v","e","r","a","g","e">>)
  \/ includes(content, <<"-","-","c","o","v","e","r","a","g","e">>)

\* docker_builds: content.includes(...) on the content as it is, no toLowerCase
dockerMatch(content) ==
  includes(content, <<"d","o","c","k","e","r">>) /\ (includes(content, <<"b","u","i","l","d">>) \/ includes(content, <<"b","u","i","l","d","-","p","u","s","h">>))

\* security_scan: keywords
SECURITY_KEYWORDS ==
  { <<"t","r","i","v","y">>, <<"b","a","n","d","i","t">>, <<"s","n","y","k">>, <<"c","o","d","e","q","l">>, <<"n","p","m"," ","a","u","d","i","t">>, <<"p","i","p","-","a","u","d","i","t">>,
    <<"s","a","f","e","t","y">>, <<"g","i","t","l","e","a","k","s">>, <<"s","e","m","g","r","e","p">>, <<"g","r","y","p","e">> }

\* security_scan: keywords.filter(k => lower.includes(k)).length > 0
securityMatch(content) ==
  LET lower == toLowerCase(content)
  IN { k \in SECURITY_KEYWORDS : includes(lower, k) } # {}

\* ghcr_published: content.includes("ghcr.io") && content.includes("push")
ghcrMatch(content) == includes(content, <<"g","h","c","r",".","i","o">>) /\ includes(content, <<"p","u","s","h">>)

\* quality_gate: keywords
QUALITY_KEYWORDS == { <<"s","o","n","a","r">>, <<"c","o","d","e","c","l","i","m","a","t","e">>, <<"c","o","d","e","c","o","v">>, <<"q","u","a","l","i","t","y">> }

\* quality_gate: keywords.filter(k => lower.includes(k)).length > 0
qualityMatch(content) ==
  LET lower == toLowerCase(content)
  IN { k \in QUALITY_KEYWORDS : includes(lower, k) } # {}

\* auto_deploy: (deploy || render || fly.io || railway) && push && main, in lower case
autoDeployMatch(content) ==
  LET lower == toLowerCase(content)
  IN /\ \/ includes(lower, <<"d","e","p","l","o","y">>)
        \/ includes(lower, <<"r","e","n","d","e","r">>)
        \/ includes(lower, <<"f","l","y",".","i","o">>)
        \/ includes(lower, <<"r","a","i","l","w","a","y">>)
     /\ includes(lower, <<"p","u","s","h">>)
     /\ includes(lower, <<"m","a","i","n">>)

\* multi_env: envs.length >= 2 || (lower.includes("staging") && lower.includes("prod"))
multiEnvMatch(content) ==
  LET lower == toLowerCase(content)
      envs == { e \in { <<"s","t","a","g","i","n","g">>, <<"p","r","o","d","u","c","t","i","o","n">>, <<"p","r","o","d">>, <<"d","e","v">> } :
                  \/ includes(lower, <<"e","n","v","i","r","o","n","m","e","n","t",":"," ">> \o e)
                  \/ includes(lower, <<"e","n","v","i","r","o","n","m","e","n","t",":","\n">>) }
  IN \/ Cardinality(envs) >= 2
     \/ includes(lower, <<"s","t","a","g","i","n","g">>) /\ includes(lower, <<"p","r","o","d">>)

\* the test a probe applies to the content of a workflow file
wfMatch(key, content) ==
  CASE key = "lint_pass"      -> lintMatch(content)
    [] key = "tests_exist"    -> testRunnerMatch(content)
    [] key = "coverage_70"    -> coverageMatch(content)
    [] key = "docker_builds"  -> dockerMatch(content)
    [] key = "security_scan"  -> securityMatch(content)
    [] key = "ghcr_published" -> ghcrMatch(content)
    [] key = "quality_gate"   -> qualityMatch(content)
    [] key = "auto_deploy"    -> autoDeployMatch(content)
    [] key = "multi_env"      -> multiEnvMatch(content)

\* for (const wf of wfFiles) { content = await ghRaw(...); if (!content) continue;
\*   if (<the test of the probe>(content)) <stop> }
\* The index of the workflow file at which the loop of a probe stops, because
\* its fetch rejects or because its content matches; 0 when the loop runs to
\* its end.
ScanStop(env, owner, repo, wfFiles, key) ==
  LET stops == { i \in 1..Len(wfFiles) :
                   LET c == ghRaw(env, owner, repo, wfFiles[i].path)
                   IN c.k = "throw" \/ (c.k = "value" /\ truthy(c.v) /\ wfMatch(key, c.v)) }
  IN IF stops = {} THEN 0 ELSE Min(stops)

\* The outcome of that loop: "throw", "hit" (a file matched) or "none".
Scan(env, owner, repo, wfFiles, key) ==
  LET i == ScanStop(env, owner, repo, wfFiles, key)
  IN IF i = 0 THEN "none"
     ELSE IF ghRaw(env, owner, repo, wfFiles[i].path).k = "throw" THEN "throw"
     ELSE "hit"

pipeline_exists(env, owner, repo) ==
  LET tree == ghTree(env, owner, repo)
  IN IF tree.k = "throw" THEN Thrown
     ELSE IF tree.k = "null" THEN Ret(FALSE, "Cannot read repo tree")
     ELSE LET wf == wfFilter(tree.v.tree)
          IN Ret(Len(wf) > 0, "workflow(s) found")

pipeline_green(env, owner, repo) ==
  LET runs == ghLatestRuns(env, owner, repo)
  IN IF runs.k = "throw" THEN Thrown
     ELSE IF runs.k = "null" \/ Len(runs.v.workflow_runs) = 0 THEN Ret(FALSE, "No runs found")
     ELSE LET last == runs.v.workflow_runs[1]
          IN Ret(last.conclusion = "success", "Last run")

lint_pass(env, owner, repo) ==
  LET tree == ghTree(env, owner, repo)
  IN IF tree.k = "throw" THEN Thrown
     ELSE IF tree.k = "null" THEN Ret(FALSE, "Cannot read repo")
     ELSE LET s == Scan(env, owner, repo, wfFilter(tree.v.tree), "lint_pass")
          IN IF s = "throw" THEN Thrown
             ELSE IF s = "hit" THEN Ret(TRUE, "Lint found")
             ELSE Ret(FALSE, "No lint step found in workflows")

WS == {" ", "\t", "\n", "\r", "\f"}
QUOTES == {"\"", "'"}
ALNUM == Range(UPPER) \cup Range(LOWER) \cup Range(DIGITS)

\* the first index >= j of s that holds no whitespace (Len(s) + 1 when none)
SkipWs(s, j) == Min({ k \in j..(Len(s) + 1) : k = Len(s) + 1 \/ s[k] \notin WS })

\* the first index >= j of s that holds a quote (Len(s) + 1 when none)
SkipNonQuote(s, j) == Min({ k \in j..(Len(s) + 1) : k = Len(s) + 1 \/ s[k] \in QUOTES })

\* /(?:SECRET_KEY|API_KEY|DB_PASSWORD|PASSWORD)\s*=\s*["'][^"']{6,}["']/i
secretAssign(content) ==
  LET lower == toLowerCase(content)
      names == { <<"s","e","c","r","e","t","_","k","e","y">>, <<"a","p","i","_","k","e","y">>, <<"d","b","_","p","a","s","s","w","o","r","d">>, <<"p","a","s","s","w","o","r","d">> }
  IN \E i \in 1..Len(content), n \in names :
       /\ i + Len(n) - 1 <= Len(content)
       /\ SubSeq(lower, i, i + Len(n) - 1) = n
       /\ LET eq == SkipWs(content, i + Len(n))
          IN /\ eq <= Len(content)
             /\ content[eq] = "="
             /\ LET q == SkipWs(content, eq + 1)
                IN /\ q <= Len(content)
                   /\ content[q] \in QUOTES
                   /\ LET close == SkipNonQuote(content, q + 1)
                      IN close <= Len(content) /\ close - (q + 1) >= 6

\* /sk-proj-[a-zA-Z0-9]+/
secretSkProj(content) ==
  \E i \in 1..Len(content) :
    /\ i + 8 <= Len(content)
    /\ SubSeq(content, i, i + 7) = <<"s","k","-","p","r","o","j","-">>
    /\ content[i + 8] \in ALNUM

\* patterns.some(p => p.test(content))
secretFound(content) ==
  \/ secretAssign(content)
  \/ secretSkProj(content)
  \/ includes(toLowerCase(content), <<"s","u","p","e","r","_","s","e","c","r","e","t">>)  \* /super_secret/i
  \/ includes(content, <<"a","d","m","i","n","1","2","3">>)                   \* /admin123/

SECRET_FILES == << <<"m","a","i","n",".","p","y">>, <<"a","p","p",".","j","s">>, <<"d","a","t","a","b","a","s","e","/","d","a","t","a","b","a","s","e",".","p","y">>, <<"d","a","t","a","b","a","s","e","/","d","a","t","a","b","a","s","e",".","j","s">> >>

\* no_secrets_in_code failing when it found nothing to flag
no_secrets_fail_closed(env, owner, repo) ==
  LET stops == { i \in 1..Len(SECRET_FILES) :
                   LET c == ghRaw(env, owner, repo, SECRET_FILES[i])
                   IN c.k = "throw" \/ (c.k = "value" /\ truthy(c.v) /\ secretFound(c.v)) }
      read == { i \in 1..Len(SECRET_FILES) : ghRaw(env, owner, repo, SECRET_FILES[i]).k = "value" }
  IN IF stops = {} THEN Ret(read # {}, "No hardcoded secrets detected")
     ELSE IF ghRaw(env, owner, repo, SECRET_FILES[Min(stops)]).k = "throw" THEN Thrown
     ELSE Ret(FALSE, "Secret found")

no_secrets_in_code(env, owner, repo) ==
  LET stops == { i \in 1..Len(SECRET_FILES) :
                   LET c == ghRaw(env, owner, repo, SECRET_FILES[i])
                   IN c.k = "throw" \/ (c.k = "value" /\ truthy(c.v) /\ secretFound(c.v)) }
  IN IF stops = {} THEN Ret(TRUE, "No hardcoded secrets detected")
     ELSE IF ghRaw(env, owner, repo, SECRET_FILES[Min(stops)]).k = "throw" THEN Thrown
     ELSE Ret(FALSE, "Secret found")

\* /test[_s]?.*\.(py|js|ts)$/i
reTestName(path) ==
  LET l == toLowerCase(path)
  IN \E i \in 1..Len(l), ext \in { <<".","p","y">>, <<".","j","s">>, <<".","t","s">> } :
       /\ i + 3 <= Len(l)
       /\ SubSeq(l, i, i + 3) = <<"t","e","s","t">>
       /\ endsWith(l, ext)
       /\ Len(l) - Len(ext) + 1 >= i + 4

\* the filter of tests_exist over tree.tree
isTestFile(path) ==
  LET l == toLowerCase(path)
  IN \/ reTestName(path)
     \/ endsWith(l, <<".","t","e","s","t",".","j","s">>) \/ endsWith(l, <<".","t","e","s","t",".","t","s">>)   \* /.*\.test\.(js|ts)$/i
     \/ endsWith(l, <<".","s","p","e","c",".","j","s">>) \/ endsWith(l, <<".","s","p","e","c",".","t","s">>)   \* /.*\.spec\.(js|ts)$/i
     \/ endsWith(l, <<"_","t","e","s","t",".","p","y">>)                                 \* /.*_test\.py$/i

tests_exist(env, owner, repo) ==
  LET tree == ghTree(env, owner, repo)
  IN IF tree.k = "throw" THEN Thrown
     ELSE IF tree.k = "null" THEN Ret(FALSE, "Cannot read repo")
     ELSE LET testFiles == SelectSeq(tree.v.tree, LAMBDA f : isTestFile(f.path))
          IN IF Len(testFiles) = 0 THEN Ret(FALSE, "No test files found")
             ELSE LET s == Scan(env, owner, repo, wfFilter(tree.v.tree), "tests_exist")
                  IN IF s = "throw" THEN Thrown
                     ELSE IF s = "hit" THEN Ret(TRUE, "test file(s), tests run in CI")
                     ELSE Ret(FALSE, "test file(s) but not run in CI")

jobNameMatch(name) ==
  LET n == toLowerCase(name)
  IN includes(n, <<"t","e","s","t">>) \/ includes(n, <<"c","i">>) \/ includes(n, <<"b","u","i","l","d">>)

\* jobs.jobs.find(...): the first job whose name matches, 0 when none
findTestJob(jobs) ==
  LET hits == { i \in 1..Len(jobs) : jobNameMatch(jobs[i].name) }
  IN IF hits = {} THEN 0 ELSE Min(hits)

tests_pass(env, owner, repo) ==
  LET runs == ghLatestRuns(env, owner, repo)
  IN IF runs.k = "throw" THEN Thrown
     ELSE IF runs.k = "null" \/ Len(runs.v.workflow_runs) = 0 THEN Ret(FALSE, "No runs")
     ELSE LET last == runs.v.workflow_runs[1]
          IN IF last.conclusion # "success" THEN Ret(FALSE, "Pipeline not green")
             ELSE LET jobs == ghJobs(env, owner, repo, last.id)
                  IN IF jobs.k = "throw" THEN Thrown
                     ELSE IF jobs.k = "null" THEN Ret(FALSE, "Cannot read jobs")
                     ELSE LET testJob == findTestJob(jobs.v.jobs)
                          IN IF testJob = 0 THEN Ret(FALSE, "No test job found")
                             ELSE Ret(jobs.v.jobs[testJob].conclusion = "success", "Job")

coverage_70(env, owner, repo) ==
  LET tree == ghTree(env, owner, repo)
  IN IF tree.k = "throw" THEN Thrown
     ELSE IF tree.k = "null" THEN Ret(FALSE, "Cannot read repo")
     ELSE LET s == Scan(env, owner, repo, wfFilter(tree.v.tree), "coverage_70")
              hasCoverage == (s = "hit")
          IN IF s = "throw" THEN Thrown
             ELSE IF ~hasCoverage THEN Ret(FALSE, "No coverage step found in CI")
             ELSE LET runs == ghLatestRuns(env, owner, repo)
                  IN IF runs.k = "throw" THEN Thrown
                     ELSE IF runs.k = "null" \/ Len(runs.v.workflow_runs) = 0
                       THEN Ret(FALSE, "No runs")
                     ELSE LET artifacts == ghArtifacts(env, owner, repo, runs.v.workflow_runs[1].id)
                              isGreen == runs.v.workflow_runs[1].conclusion = "success"
                          IN IF artifacts.k = "throw" THEN Thrown
                             ELSE Ret(hasCoverage /\ isGreen,
                                      IF isGreen THEN "Coverage in CI, pipeline green"
                                      ELSE "Coverage in CI, pipeline red")

dockerfile_exists(env, owner, repo) ==
  LET content == ghRaw(env, owner, repo, <<"D","o","c","k","e","r","f","i","l","e">>)
  IN IF content.k = "throw" THEN Thrown
     ELSE IF content.k = "value" /\ truthy(content.v) THEN Ret(TRUE, "Dockerfile found")
     ELSE Ret(FALSE, "No Dockerfile at root")

docker_builds(env, owner, repo) ==
  LET tree == ghTree(env, owner, repo)
  IN IF tree.k = "throw" THEN Thrown
     ELSE IF tree.k = "null" THEN Ret(FALSE, "Cannot read repo")
     ELSE LET s == Scan(env, owner, repo, wfFilter(tree.v.tree), "docker_builds")
          IN IF s = "throw" THEN Thrown
             ELSE IF s = "hit" THEN Ret(TRUE, "Docker build in workflow")
             ELSE Ret(FALSE, "No docker build step in CI")

security_scan(env, owner, repo) ==
  LET tree == ghTree(env, owner, repo)
  IN IF tree.k = "throw" THEN Thrown
     ELSE IF tree.k = "null" THEN Ret(FALSE, "Cannot read repo")
     ELSE LET s == Scan(env, owner, repo, wfFilter(tree.v.tree), "security_scan")
          IN IF s = "throw" THEN Thrown
             ELSE IF s = "hit" THEN Ret(TRUE, "Found security scan")
             ELSE Ret(FALSE, "No security scan found in workflows")

ghcr_published(env, owner, repo) ==
  LET packages == ghPackages(env, owner, repo)
  IN IF packages.k = "throw" THEN Thrown
     ELSE IF packages.k = "value" /\ Len(packages.v) > 0 THEN Ret(TRUE, "package(s) published")
     ELSE LET tree == ghTree(env, owner, repo)
          IN IF tree.k = "throw" THEN Thrown
             ELSE IF tree.k = "null" THEN Ret(FALSE, "No packages found")
             ELSE LET s == Scan(env, owner, repo, wfFilter(tree.v.tree), "ghcr_published")
                  IN IF s = "throw" THEN Thrown
                     ELSE IF s = "hit" THEN Ret(TRUE, "GHCR push configured")
                     ELSE Ret(FALSE, "No container packages found")

\* the filter of quality_gate over tree.tree
isSonarFile(path) ==
  includes(path, <<"s","o","n","a","r","-","p","r","o","j","e","c","t",".","p","r","o","p","e","r","t","i","e","s">>) \/ includes(path, <<"s","o","n","a","r","c","l","o","u","d">>)

quality_gate(env, owner, repo) ==
  LET tree == ghTree(env, owner, repo)
  IN IF tree.k = "throw" THEN Thrown
     ELSE IF tree.k = "null" THEN Ret(FALSE, "Cannot read repo")
     ELSE LET sonarFiles == SelectSeq(tree.v.tree, LAMBDA f : isSonarFile(f.path))
              s == Scan(env, owner, repo, wfFilter(tree.v.tree), "quality_gate")
          IN IF s = "throw" THEN Thrown
             ELSE IF s = "hit" THEN Ret(TRUE, "Found quality gate")
             ELSE IF Len(sonarFiles) > 0 THEN Ret(TRUE, "Sonar config found")
             ELSE Ret(FALSE, "No quality gate configured")

\* What the deployment behind a URL does with a GET: it answers with a
\* status, the connection fails, or nothing comes back before the 10 s abort.
SiteStatus(status) == [st |-> "response", status |-> status]
SiteUnreachable == [st |-> "network_error"]
SiteSilent == [st |-> "timeout"]

\* await fetch(team.deploy_url, { signal }): what comes back
siteAnswer(env, url) ==
  IF env.down THEN SiteUnreachable ELSE IF env.stall THEN SiteSilent ELSE env.web[url]

\* the requests of deployed: none before the test of team.deploy_url
deployedFetches(env, team) ==
  IF team.deploy_url = "" THEN {}
  ELSE { [team |-> team.team, url |-> team.deploy_url, answer |-> siteAnswer(env, team.deploy_url)] }

\* deployed passing on any response, whatever its status
deployed_any_status(env, team) ==
  IF team.deploy_url = "" THEN Ret(FALSE, "No deploy_url in teams.json")
  ELSE LET res == siteAnswer(env, team.deploy_url)
       IN IF res.st = "response"
          THEN Ret(TRUE, "HTTP status")
          ELSE Ret(FALSE, "fetch error")

deployed(env, team) ==
  IF team.deploy_url = "" THEN Ret(FALSE, "No deploy_url in teams.json")
  ELSE LET res == siteAnswer(env, team.deploy_url)
       IN IF res.st = "response"
          THEN Ret(res.status >= 200 /\ res.status <= 299, "HTTP status")  \* res.ok
          ELSE Ret(FALSE, "fetch error")                                   \* catch (e)

branch_protection(env, owner, repo) ==
  LET prot == ghProtection(env, owner, repo)
  IN IF prot.k = "throw" THEN Thrown
     ELSE IF prot.k = "null" \/ prot.v.message # "" THEN Ret(FALSE, "No branch protection")
     ELSE IF prot.v.required_pull_request_reviews THEN Ret(TRUE, "PR required before merge")
     ELSE Ret(FALSE, "Protection exists but PR not required")

auto_deploy(env, owner, repo) ==
  LET tree == ghTree(env, owner, repo)
  IN IF tree.k = "throw" THEN Thrown
     ELSE IF tree.k = "null" THEN Ret(FALSE, "Cannot read repo")
     ELSE LET s == Scan(env, owner, repo, wfFilter(tree.v.tree), "auto_deploy")
          IN IF s = "throw" THEN Thrown
             ELSE IF s = "hit" THEN Ret(TRUE, "Deploy on push to main")
             ELSE Ret(FALSE, "No auto-deploy workflow found")

multi_env(env, owner, repo) ==
  LET tree == ghTree(env, owner, repo)
  IN IF tree.k = "throw" THEN Thrown
     ELSE IF tree.k = "null" THEN Ret(FALSE, "Cannot read repo")
     ELSE LET s == Scan(env, owner, repo, wfFilter(tree.v.tree), "multi_env")
          IN IF s = "throw" THEN Thrown
             ELSE IF s = "hit" THEN Ret(TRUE, "Multiple environments detected")
             ELSE Ret(FALSE, "Single environment or none")

RECURSIVE SumDurations(_)
\* totalMs: the sum of updated_at - created_at over the runs (times in seconds)
SumDurations(runs) ==
  IF runs = <<>> THEN 0
  ELSE 1000 * (runs[1].updated_at - runs[1].created_at) + SumDurations(Tail(runs))

pipeline_fast(env, owner, repo) ==
  LET runs == ghSuccessRuns(env, owner, repo)
  IN IF runs.k = "throw" THEN Thrown
     ELSE IF runs.k = "null" \/ Len(runs.v.workflow_runs) = 0 THEN Ret(FALSE, "No successful runs")
     ELSE LET totalMs == SumDurations(runs.v.workflow_runs)
              count == Len(runs.v.workflow_runs)
          IN Ret(totalMs < 3 * 60000 * count, "Average duration")   \* totalMs / count / 60000 < 3

dependabot(env, owner, repo) ==
  LET depbot == ghRaw(env, owner, repo, <<".","g","i","t","h","u","b","/","d","e","p","e","n","d","a","b","o","t",".","y","m","l">>)
      renovate == ghRaw(env, owner, repo, <<"r","e","n","o","v","a","t","e",".","j","s","o","n">>)
      renovate2 == ghRaw(env, owner, repo, <<".","g","i","t","h","u","b","/","r","e","n","o","v","a","t","e",".","j","s","o","n">>)
      found(c) == c.k = "value" /\ truthy(c.v)
  IN IF depbot.k = "throw" THEN Thrown
     ELSE IF found(depbot) THEN Ret(TRUE, "dependabot.yml found")
     ELSE IF renovate.k = "throw" THEN Thrown
     ELSE IF found(renovate) THEN Ret(TRUE, "renovate.json found")
     ELSE IF renovate2.k = "throw" THEN Thrown
     ELSE IF found(renovate2) THEN Ret(TRUE, ".github/renovate.json found")
     ELSE Ret(FALSE, "No dependency update config")

-----------------------------------------------------------------------------
\* The catalogue

\* Object.entries(CHECKS): the keys in insertion order
Keys ==
  << "pipeline_exists", "pipeline_green", "lint_pass", "no_secrets_in_code",
     "tests_exist", "tests_pass", "coverage_70", "dockerfile_exists", "docker_builds",
     "security_scan", "ghcr_published", "quality_gate", "deployed",
     "branch_protection", "auto_deploy", "multi_env", "pipeline_fast", "dependabot" >>

KeySet == Range(Keys)

Check(points, category, label) == [points |-> points, category |-> category, label |-> label]

CHECKS ==
  [ pipeline_exists    |-> Check(5, "fundamentals", "Pipeline exists"),
    pipeline_green     |-> Check(5, "fundamentals", "Pipeline green on main"),
    lint_pass          |-> Check(5, "fundamentals", "Lint step in pipeline"),
    no_secrets_in_code |-> Check(5, "fundamentals", "No hardcoded secrets"),
    tests_exist        |-> Check(10, "fundamentals", "Tests exist in pipeline"),
    tests_pass         |-> Check(5, "fundamentals", "Tests pass"),
    coverage_70        |-> Check(10, "fundamentals", "Coverage >= 70%"),
    dockerfile_exists  |-> Check(5, "fundamentals", "Dockerfile exists"),
    docker_builds      |-> Check(5, "fundamentals", "Docker build in CI"),
    security_scan      |-> Check(10, "intermediate", "Security scan in CI"),
    ghcr_published     |-> Check(10, "intermediate", "Image on GHCR"),
    quality_gate       |-> Check(10, "intermediate", "Quality gate (SonarCloud etc.)"),
    deployed           |-> Check(10, "intermediate", "App deployed (HTTP 200)"),
    branch_protection  |-> Check(5, "advanced", "Branch protection on main"),
    auto_deploy        |-> Check(10, "advanced", "Auto-deploy on push to main"),
    multi_env          |-> Check(10, "advanced", "Multiple environments"),
    pipeline_fast      |-> Check(5, "advanced", "Pipeline < 3 minutes"),
    dependabot         |-> Check(5, "advanced", "Dependabot/Renovate configured") ]

\* check.run(owner, repo, team)
run(key, env, owner, repo, team) ==
  CASE key = "pipeline_exists"    -> pipeline_exists(env, owner, repo)
    [] key = "pipeline_green"     -> pipeline_green(env, owner, repo)
    [] key = "lint_pass"          -> lint_pass(env, owner, repo)
    [] key = "no_secrets_in_code" -> no_secrets_in_code(env, owner, repo)
    [] key = "tests_exist"        -> tests_exist(env, owner, repo)
    [] key = "tests_pass"         -> tests_pass(env, owner, repo)
    [] key = "coverage_70"        -> coverage_70(env, owner, repo)
    [] key = "dockerfile_exists"  -> dockerfile_exists(env, owner, repo)
    [] key = "docker_builds"      -> docker_builds(env, owner, repo)
    [] key = "security_scan"      -> security_scan(env, owner, repo)
    [] key = "ghcr_published"     -> ghcr_published(env, owner, repo)
    [] key = "quality_gate"       -> quality_gate(env, owner, repo)
    [] key = "deployed"           -> deployed(env, team)
    [] key = "branch_protection"  -> branch_protection(env, owner, repo)
    [] key = "auto_deploy"        -> auto_deploy(env, owner, repo)
    [] key = "multi_env"          -> multi_env(env, owner, repo)
    [] key = "pipeline_fast"      -> pipeline_fast(env, owner, repo)
    [] key = "dependabot"         -> dependabot(env, owner, repo)

RECURSIVE SumPoints(_)
\* Object.values(CHECKS).reduce((s, c) => s + c.points, 0), over a sequence of keys
SumPoints(keys) ==
  IF keys = <<>> THEN 0 ELSE CHECKS[keys[1]].points + SumPoints(Tail(keys))

-----------------------------------------------------------------------------
\* scoreTeam

NoResults == [k \in {} |-> 0]

\* results[key] = value
Put(res, key, value) == [k \in DOMAIN res \cup {key} |-> IF k = key THEN value ELSE res[k]]

\* { ...result, points, label, category }
ResultOf(result, check) ==
  [ pass |-> result.pass, detail |-> result.detail,
    points |-> check.points, label |-> check.label, category |-> check.category ]

\* the result recorded by the catch branch
ErrorResult(check) ==
  [ pass |-> FALSE, detail |-> "Error: fetch failed",
    points |-> check.points, label |-> check.label, category |-> check.category ]

\* try branch: if (result.pass) total += check.points, with every probe counted
tryTotal_always(t, result, check) == t + check.points

\* try branch: if (result.pass) total += check.points
tryTotal(t, result, check) == IF result.pass THEN t + check.points ELSE t

\* catch branch that records nothing
catchResults_none(res, key, check) == res

\* catch branch: results[key] = { pass: false, ..., detail: `Error: ${e.message}` }
catchResults(res, key, check) == Put(res, key, ErrorResult(check))

\* catch branch that leaves maxTotal alone
catchMaxTotal_same(m, check) == m

\* catch branch: maxTotal += check.points
catchMaxTotal(m, check) == m + check.points

\* a push that keeps only the teams that scored
push_scored(s, audit) == IF audit.total = 0 THEN s ELSE Append(s, audit)

\* scores.push(audit)
push(s, audit) == Append(s, audit)

\* The network while a probe runs: an outage may begin before any probe and,
\* once begun, may end before any later probe; it does not begin twice. A run
\* without outage may instead see the remote side go silent before any probe,
\* and then stay so.
NetNext(n) ==
  CASE n = "up"     -> {"up", "down", "silent"}
    [] n = "down"   -> {"down", "back"}
    [] n = "back"   -> {"back"}
    [] n = "silent" -> {"silent"}

\* What the URLs of the roster answer
Web ==
  [ u \in {"https://ok.example", "https://empty.example", "https://err.example",
           "https://lost.example", "https://silent.example", "https://refused.example"} |->
      CASE u = "https://ok.example"      -> SiteStatus(200)
        [] u = "https://empty.example"   -> SiteStatus(204)
        [] u = "https://err.example"     -> SiteStatus(500)
        [] u = "https://lost.example"    -> SiteStatus(404)
        [] u = "https://silent.example"  -> SiteSilent
        [] u = "https://refused.example" -> SiteUnreachable ]

\* await check.run(owner, repo, team), with [owner, repo] = team.repo.split("/"),
\* while the network is n
checkRun(key, team, n) ==
  run(key, [down |-> n = "down", stall |-> n = "silent", web |-> Web, host |-> hosted],
      team.repo[1], team.repo[2], team)

\* the requests check.run(owner, repo, team) sends to the deployment of the team
checkFetches(key, team, n) ==
  IF key = "deployed"
  THEN deployedFetches([down |-> n = "down", stall |-> n = "silent", web |-> Web, host |-> hosted], team)
  ELSE {}

\* main: for (const team of teams) scores.push(await scoreTeam(team)), entering scoreTeam
CallScoreTeam ==
  /\ pc = "loop"
  /\ ti <= Len(teams)
  /\ pc' = "checks"
  /\ ki' = 1
  /\ results' = NoResults
  /\ total' = 0
  /\ maxTotal' = 0
  /\ UNCHANGED <<teams, hosted, net, ti, scores, fetched, output>>

\* one iteration of the loop over CHECKS in which check.run returns
CheckReturns ==
  /\ pc = "checks"
  /\ ki <= Len(Keys)
  /\ \E n \in NetNext(net) : \E result \in { checkRun(Keys[ki], teams[ti], n) } :
       LET key == Keys[ki]
           check == CHECKS[key]
       IN /\ result.k = "return"
          /\ net' = n
          /\ results' = Put(results, key, ResultOf(result, check))
          /\ total' = tryTotal(total, result, check)
          /\ maxTotal' = maxTotal + check.points
          /\ fetched' = fetched \cup checkFetches(key, teams[ti], n)
  /\ ki' = ki + 1
  /\ UNCHANGED <<teams, hosted, pc, ti, scores, output>>

\* one iteration of the loop over CHECKS in which check.run throws
CheckThrows ==
  /\ pc = "checks"
  /\ ki <= Len(Keys)
  /\ \E n \in NetNext(net) : \E result \in { checkRun(Keys[ki], teams[ti], n) } :
       LET key == Keys[ki]
           check == CHECKS[key]
       IN /\ result.k = "throw"
          /\ net' = n
          /\ results' = catchResults(results, key, check)
          /\ maxTotal' = catchMaxTotal(maxTotal, check)
          /\ fetched' = fetched \cup checkFetches(key, teams[ti], n)
  /\ ki' = ki + 1
  /\ UNCHANGED <<teams, hosted, pc, ti, total, scores, output>>

\* one iteration of the loop over CHECKS in which check.run never settles: a
\* fetch of gh or ghRaw is left without answer and nothing ends the await
CheckPends ==
  /\ pc = "checks"
  /\ ki <= Len(Keys)
  /\ "silent" \in NetNext(net)
  /\ checkRun(Keys[ki], teams[ti], "silent").k = "throw"
  /\ net' = "silent"
  /\ pc' = "pending"
  /\ UNCHANGED <<teams, hosted, ti, ki, results, total, maxTotal, scores, fetched, output>>

\* scoreTeam returns and main pushes the audit
ReturnScoreTeam ==
  /\ pc = "checks"
  /\ ki > Len(Keys)
  /\ scores' = push(scores,
       [ team |-> teams[ti].team, members |-> teams[ti].members, repo |-> teams[ti].repo,
         deploy_url |-> teams[ti].deploy_url, total |-> total, maxTotal |-> maxTotal,
         results |-> results ])
  /\ ti' = ti + 1
  /\ pc' = "loop"
  /\ UNCHANGED <<teams, hosted, net, ki, results, total, maxTotal, fetched, output>>

-----------------------------------------------------------------------------
\* main, after the loop

\* an insertion that puts x before the elements it ties with
InsertByTotal_unstable(sorted, x) ==
  LET before == { i \in 1..Len(sorted) : sorted[i].total > x.total }
      at == IF before = {} THEN 0 ELSE CHOOSE i \in before : \A j \in before : j <= i
  IN SubSeq(sorted, 1, at) \o <<x>> \o SubSeq(sorted, at + 1, Len(sorted))

\* Array.prototype.sort is stable: x goes after every element the comparator
\* does not order behind it, that is after the last element with total >= x.total.
InsertByTotal(sorted, x) ==
  LET before == { i \in 1..Len(sorted) : sorted[i].total >= x.total }
      at == IF before = {} THEN 0 ELSE CHOOSE i \in before : \A j \in before : j <= i
  IN SubSeq(sorted, 1, at) \o <<x>> \o SubSeq(sorted, at + 1, Len(sorted))

RECURSIVE SortFrom(_, _)
SortFrom(sorted, rest) ==
  IF rest = <<>> THEN sorted ELSE SortFrom(InsertByTotal(sorted, rest[1]), Tail(rest))

\* main without its sort
sortByTotal_omitted(s) == s

\* scores.sort((a, b) => b.total - a.total)
sortByTotal(s) == SortFrom(<<>>, s)

\* scores.forEach((s, i) => (s.rank = i + 1)), i counted from 0
addRank(s) ==
  [ i \in 1..Len(s) |->
      [ team |-> s[i].team, members |-> s[i].members, repo |-> s[i].repo,
        deploy_url |-> s[i].deploy_url, total |-> s[i].total, maxTotal |-> s[i].maxTotal,
        results |-> s[i].results, rank |-> (i - 1) + 1 ] ]

\* the rest of main: sort, rank, build the document and write docs/scores.json
WriteScores ==
  /\ pc = "loop"
  /\ ti > Len(teams)
  /\ scores' = addRank(sortByTotal(scores))
  /\ output' = << [ total_possible |-> SumPoints(Keys), teams |-> scores' ] >>
  /\ pc' = "done"
  /\ UNCHANGED <<teams, hosted, net, ti, ki, results, total, maxTotal, fetched>>

Next ==
  \/ CallScoreTeam
  \/ CheckReturns
  \/ CheckThrows
  \/ CheckPends
  \/ ReturnScoreTeam
  \/ WriteScores

-----------------------------------------------------------------------------
\* Audit runs

\* teams.json: the i-th record is team i
Roster(es) ==
  [ i \in 1..Len(es) |->
      [team |-> i, members |-> <<"student">>, repo |-> es[i].repo, deploy_url |-> es[i].deploy_url] ]

RostersOver(E, lens) == { Roster(es) : es \in UNION { [1..n -> E] : n \in lens } }

\* the state when main starts
Start ==
  /\ hosted = [ id \in { teams[i].repo : i \in 1..Len(teams) } |-> Hosted[id] ]
  /\ net = "up"
  /\ pc = "loop"
  /\ ti = 1
  /\ ki = 1
  /\ results = NoResults
  /\ total = 0
  /\ maxTotal = 0
  /\ scores = <<>>
  /\ fetched = {}
  /\ output = <<>>

\* runs over rosters of up to MaxTeams teams
Init == teams \in RostersOver(Entries, 0..MaxTeams) /\ Start

Spec == Init /\ [][Next]_vars

\* runs over one team of DeployEntries
InitDeploy == teams \in RostersOver(DeployEntries, {1}) /\ Start

SpecDeploy == InitDeploy /\ [][Next]_vars

\* runs over one team, each step that can be taken being taken in the end: the
\* event loop resumes scoreTeam whenever the promise it awaits has settled
SpecLive == InitDeploy /\ [][Next]_vars /\ WF_vars(Next)

\* runs over one repository of the "tree" family
InitTree == teams \in RostersOver(TreeEntries, {1}) /\ Start

SpecTree == InitTree /\ [][Next]_vars

\* runs over one repository of the "jobs" family
InitJobs == teams \in RostersOver(JobsEntries, {1}) /\ Start

SpecJobs == InitJobs /\ [][Next]_vars

\* runs over one repository of the "case" family
InitCase == teams \in RostersOver(CaseEntries, {1}) /\ Start

SpecCase == InitCase /\ [][Next]_vars

-----------------------------------------------------------------------------
\* Properties

\* the probe's recorded result is the one the catch branch of scoreTeam writes
Threw(audit, key) == audit.results[key].detail = "Error: fetch failed"

\* the leaderboard of the written document
Board == output[1].teams

RECURSIVE SumPassed(_, _)
\* the points of the keys of a sequence whose recorded result passed
SumPassed(res, keys) ==
  IF keys = <<>> THEN 0
  ELSE (IF keys[1] \in DOMAIN res /\ res[keys[1]].pass THEN CHECKS[keys[1]].points ELSE 0)
       + SumPassed(res, Tail(keys))

\* C1: whatever the probes of a team did (pass, fail, throw), the maxTotal
\* scoreTeam returns is the sum of the points of all CHECKS, which is the
\* total_possible of the document, the same for every team.
C1_MaxTotalIsSumOfPoints ==
  /\ (pc = "checks" /\ ki > Len(Keys)) => maxTotal = SumPoints(Keys)
  /\ \A i \in 1..Len(scores) : scores[i].maxTotal = SumPoints(Keys)
  /\ pc = "done" => \A i \in 1..Len(Board) : Board[i].maxTotal = output[1].total_possible

\* a written leaderboard of two teams, one of which had a probe throw, a
\* probe fail without throwing and a probe pass
C1_Witness ==
  /\ pc = "done"
  /\ Len(Board) >= 2
  /\ \E i \in 1..Len(Board) : \E a, b, c \in KeySet :
       /\ Threw(Board[i], a)
       /\ ~Board[i].results[b].pass /\ ~Threw(Board[i], b)
       /\ Board[i].results[c].pass

\* C2: the written leaderboard holds exactly one entry per record of the
\* roster, whatever failed while the records were scored.
C2_OneEntryPerRecord ==
  pc = "done" =>
    /\ Len(Board) = Len(teams)
    /\ \A r \in 1..Len(teams) :
         Cardinality({ i \in 1..Len(Board) :
                         Board[i].team = teams[r].team /\ Board[i].repo = teams[r].repo }) = 1

\* a written leaderboard of two teams, one on a repository no endpoint of
\* which answers, the other with every probe that can throw having thrown
C2_Witness ==
  /\ pc = "done"
  /\ Len(Board) >= 2
  /\ \E i, j \in 1..Len(Board) :
       /\ i # j
       /\ Hosted[Board[i].repo] = GoneRepo
       /\ \A k \in KeySet \ {"deployed"} : Threw(Board[j], k)

\* C3: in the written leaderboard the entry at position i (from 1) has rank
\* i, so the ranks are 1..N, and the totals never increase along it.
C3_RanksAndOrder ==
  pc = "done" =>
    /\ \A i \in 1..Len(Board) : Board[i].rank = i
    /\ { Board[i].rank : i \in 1..Len(Board) } = 1..Len(teams)
    /\ \A i, j \in 1..Len(Board) : i < j => Board[i].total >= Board[j].total

\* a written leaderboard led by the second team of the roster, strictly
\* ahead of the first
C3_Witness ==
  /\ pc = "done"
  /\ Len(Board) >= 2
  /\ Board[1].team = teams[2].team
  /\ Board[1].total > Board[2].total

\* the position of a team of the leaderboard in the roster
RosterPos(name) == CHOOSE r \in 1..Len(teams) : teams[r].team = name

\* C4: of two teams with the same total, the one earlier in the roster is
\* earlier in the leaderboard and has the smaller rank; neighbours with the
\* same total have consecutive ranks.
C4_StableRanking ==
  pc = "done" =>
    /\ \A i, j \in 1..Len(Board) :
         (Board[i].total = Board[j].total /\ RosterPos(Board[i].team) < RosterPos(Board[j].team))
           => (i < j /\ Board[i].rank < Board[j].rank)
    /\ \A i \in 1..(Len(Board) - 1) :
         Board[i].total = Board[i + 1].total => Board[i + 1].rank = Board[i].rank + 1

\* a written leaderboard whose first two entries tie on a total above zero
C4_Witness ==
  /\ pc = "done"
  /\ Len(Board) >= 2
  /\ Board[1].total = Board[2].total
  /\ Board[1].total > 0

\* C5: a probe that threw is recorded as failed, and the loop goes on: at each
\* point of scoreTeam the results hold exactly the keys looped over so far,
\* every returned audit holds every key of CHECKS, and a written leaderboard
\* comes from a run that scored every team.
C5_ProbeIsolation ==
  /\ pc = "checks" =>
       /\ DOMAIN results = { Keys[j] : j \in 1..(ki - 1) }
       /\ \A k \in DOMAIN results : results[k].detail = "Error: fetch failed" => ~results[k].pass
  /\ \A i \in 1..Len(scores) :
       /\ DOMAIN scores[i].results = KeySet
       /\ \A k \in KeySet : Threw(scores[i], k) => ~scores[i].results[k].pass
  /\ pc = "done" => Len(scores) = Len(teams)

\* an audit in which a probe threw and a later probe passed, followed by the
\* audit of another team
C5_Witness ==
  /\ Len(scores) >= 2
  /\ \E a, b \in 1..Len(Keys) :
       /\ a < b
       /\ Threw(scores[1], Keys[a])
       /\ scores[1].results[Keys[b]].pass

\* C6: the total of an audit is the sum of the points of the probes recorded
\* as passed, and lies between 0 and maxTotal; so it is while scoreTeam loops.
C6_TotalIsSumOfPassed ==
  /\ pc = "checks" => (total = SumPassed(results, Keys) /\ 0 <= total /\ total <= maxTotal)
  /\ \A i \in 1..Len(scores) :
       /\ scores[i].total = SumPassed(scores[i].results, Keys)
       /\ 0 <= scores[i].total
       /\ scores[i].total <= scores[i].maxTotal

\* an audit with passed, failed and thrown probes, its total strictly between
\* 0 and maxTotal
C6_Witness ==
  \E i \in 1..Len(scores) :
    /\ 0 < scores[i].total
    /\ scores[i].total < scores[i].maxTotal
    /\ \E a, b \in KeySet :
         Threw(scores[i], a) /\ ~scores[i].results[b].pass /\ ~Threw(scores[i], b)

\* the record names a repository no endpoint of which answers, and no URL
Uninspectable(audit) == Hosted[audit.repo] = GoneRepo /\ audit.deploy_url = ""

\* every remote operation of the audit returned: none was cut by the outage
NoThrow(audit) == \A k \in KeySet : ~Threw(audit, k)

\* C7 as claimed: a repository every remote operation of which returns the
\* absent outcome, with no deploy URL, is on the leaderboard with total 0.
C7_UninspectableScoresZero ==
  pc = "done" =>
    \A r \in 1..Len(teams) :
      (Hosted[teams[r].repo] = GoneRepo /\ teams[r].deploy_url = "") =>
        \E i \in 1..Len(Board) :
          /\ Board[i].team = teams[r].team
          /\ NoThrow(Board[i]) => Board[i].total = 0

\* C7 amended: such a repository is on the leaderboard; no probe other than
\* no_secrets_in_code passes for it, and when every remote operation returned
\* the absent outcome no_secrets_in_code passes, so that the total is its 5 points.
C7_UninspectableScoresNoSecrets ==
  pc = "done" =>
    \A r \in 1..Len(teams) :
      (Hosted[teams[r].repo] = GoneRepo /\ teams[r].deploy_url = "") =>
        \E i \in 1..Len(Board) :
          /\ Board[i].team = teams[r].team
          /\ \A k \in KeySet \ {"no_secrets_in_code"} : ~Board[i].results[k].pass
          /\ NoThrow(Board[i]) =>
               /\ Board[i].results["no_secrets_in_code"].pass
               /\ Board[i].total = CHECKS["no_secrets_in_code"].points
               /\ Board[i].total = 5

\* a written leaderboard with such a repository, scored with the network up
C7_Witness ==
  /\ pc = "done"
  /\ \E i \in 1..Len(Board) : Uninspectable(Board[i]) /\ NoThrow(Board[i])

\* the file tree the repository of an audit answers with
TreeOf(audit) == Hosted[audit.repo].tree.body.tree

\* a workflow definition file of the repository
IsWorkflowPath(path) ==
  startsWith(path, <<".","g","i","t","h","u","b","/","w","o","r","k","f","l","o","w","s","/">>) /\ (endsWith(path, <<".","y","m","l">>) \/ endsWith(path, <<".","y","a","m","l">>))

\* the tree of the audited repository is readable and holds no workflow file
NoWorkflowFile(audit) ==
  /\ Hosted[audit.repo].tree.st = "ok"
  /\ \A i \in 1..Len(TreeOf(audit)) : ~IsWorkflowPath(TreeOf(audit)[i].path)

WorkflowProbes ==
  { "lint_pass", "docker_builds", "security_scan", "quality_gate", "auto_deploy",
    "multi_env", "coverage_70", "tests_exist" }

\* C8 as claimed: without a workflow file in the tree, pipeline_exists fails
\* and so does every probe that reads workflow content, quality_gate included.
C8_NoWorkflowFailsAll ==
  \A i \in 1..Len(scores) :
    NoWorkflowFile(scores[i]) =>
      /\ ~scores[i].results["pipeline_exists"].pass
      /\ \A k \in WorkflowProbes : ~scores[i].results[k].pass

\* C8 amended: without a workflow file in the tree, pipeline_exists, lint_pass,
\* docker_builds, security_scan, auto_deploy, multi_env, coverage_70 and
\* tests_exist fail; quality_gate, unless it threw, passes exactly when a path
\* of the tree contains "sonar-project.properties" or "sonarcloud".
C8_NoWorkflowFailsAllButSonar ==
  \A i \in 1..Len(scores) :
    NoWorkflowFile(scores[i]) =>
      /\ ~scores[i].results["pipeline_exists"].pass
      /\ \A k \in WorkflowProbes \ {"quality_gate"} : ~scores[i].results[k].pass
      /\ ~Threw(scores[i], "quality_gate") =>
           (scores[i].results["quality_gate"].pass <=>
              \E j \in 1..Len(TreeOf(scores[i])) : isSonarFile(TreeOf(scores[i])[j].path))

\* an audit, cut by no outage, of a repository without workflow file whose
\* tree holds test files, a workflow-like file outside .github/workflows/ and
\* a Sonar configuration, with a green run
C8_Witness ==
  \E i \in 1..Len(scores) :
    /\ NoWorkflowFile(scores[i])
    /\ NoThrow(scores[i])
    /\ scores[i].results["pipeline_green"].pass
    /\ scores[i].results["quality_gate"].pass
    /\ \E j \in 1..Len(TreeOf(scores[i])) : isTestFile(TreeOf(scores[i])[j].path)
    /\ \E j \in 1..Len(TreeOf(scores[i])) :
         TreeOf(scores[i])[j].path = <<"d","o","c","s","/",".","g","i","t","h","u","b","/","w","o","r","k","f","l","o","w","s","/","c","i",".","y","m","l">>

\* the latest run on main of the audited repository, and its jobs
LatestRun(audit) == Hosted[audit.repo].runs.body[1]
JobsOf(audit) == Hosted[audit.repo].jobs[LatestRun(audit).id].body.jobs

\* C9 as claimed: tests_pass passes exactly when the latest run on main
\* succeeded and some job whose name contains "test", "ci" or "build"
\* (whatever the case) succeeded, wherever that job stands in the list.
C9_TestsPassIffSomeJobSucceeded ==
  \A i \in 1..Len(scores) :
    ~Threw(scores[i], "tests_pass") =>
      (scores[i].results["tests_pass"].pass <=>
         /\ LatestRun(scores[i]).conclusion = "success"
         /\ \E j \in 1..Len(JobsOf(scores[i])) :
              /\ jobNameMatch(JobsOf(scores[i])[j].name)
              /\ JobsOf(scores[i])[j].conclusion = "success")

\* the text of the workflow file of a repository
WorkflowText(repo) == Hosted[repo].files[CI_YML].body

\* the verdict of a probe on the repository of a record, the network up
Verdict(entry, key) ==
  run(key, [down |-> FALSE, stall |-> FALSE, web |-> Web, host |-> Hosted],
      entry.repo[1], entry.repo[2], entry)

\* the record of the repository holding the same phrase in lower case
LowerTwin(audit) ==
  LET p == ParamOf(CaseParams, audit.repo[2])
  IN Entry("case", NameOf(CHOOSE q \in CaseParams : q[1] = p[1] /\ q[2] = {}), "")

CaseProbes ==
  { "lint_pass", "docker_builds", "security_scan", "quality_gate", "auto_deploy",
    "multi_env", "coverage_70" }

\* C10 as claimed: a workflow file and the same file in lower case get the
\* same verdict from each probe that looks for keywords in workflow content.
C10_VerdictIgnoresCase ==
  \A i \in 1..Len(scores) :
    toLowerCase(WorkflowText(scores[i].repo)) = WorkflowText(LowerTwin(scores[i]).repo) =>
      \A k \in CaseProbes :
        ~Threw(scores[i], k) =>
          scores[i].results[k].pass = Verdict(LowerTwin(scores[i]), k).pass


\* C11 as claimed: whatever makes a remote operation unavailable, the helpers
\* return the absent value and the probe returns a verdict, so that no result
\* is ever written by the catch branch of scoreTeam.
C11_CatchBranchNeverEntered ==
  /\ pc = "checks" => \A k \in DOMAIN results : results[k].detail # "Error: fetch failed"
  /\ \A i \in 1..Len(scores) : \A k \in KeySet : ~Threw(scores[i], k)

\* the requests the deployed probe of an audit issued
FetchesOf(audit) == { f \in fetched : f.team = audit.team }

\* the request was answered before the abort with a status from 200 to 299
Answered2xx(f) == f.answer.st = "response" /\ f.answer.status \in 200..299

\* C12: for a record without deploy URL, deployed fails with the detail about
\* the missing URL and issues no request; otherwise it issues one request to
\* the URL and passes exactly when that request was answered with a 2xx
\* status; a network error or a timeout gives a failed verdict, and the probe
\* never throws.
C12_Deployed ==
  \A i \in 1..Len(scores) :
    LET audit == scores[i]
        r == audit.results["deployed"]
    IN /\ ~Threw(audit, "deployed")
       /\ audit.deploy_url = "" =>
            /\ ~r.pass
            /\ r.detail = "No deploy_url in teams.json"
            /\ FetchesOf(audit) = {}
       /\ audit.deploy_url # "" =>
            /\ Cardinality(FetchesOf(audit)) = 1
            /\ \A f \in FetchesOf(audit) :
                 /\ f.url = audit.deploy_url
                 /\ r.pass <=> Answered2xx(f)
                 /\ f.answer.st # "response" => r.detail = "fetch error"

\* an audit whose deployment answered 500 to the request of deployed, once
\* the outage that cut the probes before it had ended
C12_Witness ==
  \E i \in 1..Len(scores) :
    /\ \E f \in FetchesOf(scores[i]) : f.answer.st = "response" /\ f.answer.status = 500
    /\ ~scores[i].results["deployed"].pass
    /\ Threw(scores[i], "quality_gate")

\* C13 as claimed: every remote operation has a bounded wait, so that every
\* run, its enabled steps being taken, ends up writing the leaderboard
\* document, even when the remote side stops answering.
C13_EventuallyWritten == <>(pc = "done")
====
